---- MODULE Spec2Model ----
(***************************************************************************)
(* Model of src/main.py: the DDPM noise schedule (DDPM.ddpm_schedules),    *)
(* the training objective (DDPM.forward), the reverse sampler              *)
(* (DDPM.sample) and the training loop with its per-epoch sampling         *)
(* checkpoint (ImageGenerator.train / visualize_results).                  *)
(*                                                                         *)
(* Numbers.  A tensor element is a record [k, a, b]; a and b are exact     *)
(* rationals <<numerator, denominator>> in lowest terms:                   *)
(*   k = "rat"   the rational a                                            *)
(*   k = "sqrt"  sqrt(a)                                                   *)
(*   k = "quot"  a / sqrt(b)                                               *)
(*   k = "nan"   IEEE not-a-number,  k = "inf"  IEEE +infinity             *)
(* Rounding of float32 is not modelled; NaN and division by zero are.      *)
(* A tensor's shape is abstracted to the size of its batch dimension.      *)
(***************************************************************************)
EXTENDS Integers, Sequences, FiniteSets, TLC

\* ---------------------------------------------------------------- bounds
MaxT == 3          \* largest step count n_T tried
MaxEpochs == 2     \* largest epoch count tried (self.epoch)
MaxBatches == 2    \* largest number of batches the data loader delivers
BatchSize == 2     \* self.batch_size, scaled down (batch dimension of x)
SampleNum == 2     \* self.sample_num, scaled down (n_sample of a checkpoint)
MaxOutDim == 3     \* largest batch dimension a denoiser output may have

\* ------------------------------------------------------ exact rationals
RECURSIVE Gcd(_, _)
Gcd(a, b) == IF b = 0 THEN a ELSE Gcd(b, a % b)

Abs(n) == IF n < 0 THEN -n ELSE n

\* n/d in lowest terms with a positive denominator (d # 0)
Rat(n, d) ==
    LET s == IF d < 0 THEN -1 ELSE 1
        g == Gcd(Abs(n), Abs(d))
    IN  <<(s * n) \div g, (s * d) \div g>>

RZero == <<0, 1>>
ROne == <<1, 1>>
RAdd(p, q) == Rat(p[1] * q[2] + q[1] * p[2], p[2] * q[2])
RSub(p, q) == Rat(p[1] * q[2] - q[1] * p[2], p[2] * q[2])
RMul(p, q) == Rat(p[1] * q[1], p[2] * q[2])
RLt(p, q) == p[1] * q[2] < q[1] * p[2]

\* ------------------------------------------------------ tensor elements
Num(r) == [k |-> "rat", a |-> r, b |-> RZero]
NaN == [k |-> "nan", a |-> RZero, b |-> RZero]
Inf == [k |-> "inf", a |-> RZero, b |-> RZero]

\* v + w, v - w, v * w for rational or NaN operands
VAdd(v, w) == IF v.k = "rat" /\ w.k = "rat" THEN Num(RAdd(v.a, w.a)) ELSE NaN
VSub(v, w) == IF v.k = "rat" /\ w.k = "rat" THEN Num(RSub(v.a, w.a)) ELSE NaN
VMul(v, w) == IF v.k = "rat" /\ w.k = "rat" THEN Num(RMul(v.a, w.a)) ELSE NaN

\* tensor / python int: x/0 is nan for x = 0 and inf for x > 0, no exception
VDivInt(v, n) ==
    IF v.k # "rat" THEN NaN
    ELSE IF n # 0 THEN Num(Rat(v.a[1], v.a[2] * n))
    ELSE IF v.a[1] = 0 THEN NaN
    ELSE Inf

\* torch.sqrt: nan below zero
VSqrt(v) ==
    IF v.k # "rat" \/ RLt(v.a, RZero) THEN NaN
    ELSE [k |-> "sqrt", a |-> v.a, b |-> RZero]

\* v / w where v is rational and w is a square root
VDivSqrt(v, w) ==
    IF v.k # "rat" \/ w.k # "sqrt" THEN NaN
    ELSE IF w.a # RZero THEN [k |-> "quot", a |-> v.a, b |-> w.a]
    ELSE IF v.a = RZero THEN NaN
    ELSE Inf

\* torch.log, kept in the log domain: the record stands for log(v);
\* log of a non-positive number is not a finite value
VLog(v) == IF v.k = "rat" /\ RLt(RZero, v.a) THEN v ELSE NaN

\* a cumsum that forgets the running sum
CumSumLogNoCarry(logs, t) == logs[t]

\* torch.cumsum of logs at index t: log(x0) + ... + log(xt) = log(x0 * ... * xt)
RECURSIVE CumSumLog(_, _)
CumSumLog(logs, t) ==
    IF t = 0 THEN logs[0] ELSE VMul(CumSumLog(logs, t - 1), logs[t])

\* .exp() of a log-domain value
VExp(l) == l

\* ----------------------------------------------------- DDPM.ddpm_schedules
Arange(T) == 0 .. T

BetasOK(beta1, beta2) == RLt(beta1, beta2) /\ RLt(beta2, ROne)

Schedules(beta1, beta2, T) ==
    LET idx == Arange(T)
        beta_t == [t \in idx |->
                     VAdd(VDivInt(VMul(Num(RSub(beta2, beta1)), Num(Rat(t, 1))), T),
                          Num(beta1))]
        sqrt_beta_t == [t \in idx |-> VSqrt(beta_t[t])]
        alpha_t == [t \in idx |-> VSub(Num(ROne), beta_t[t])]
        log_alpha_t == [t \in idx |-> VLog(alpha_t[t])]
        alphabar_t == [t \in idx |-> VExp(CumSumLog(log_alpha_t, t))]
        sqrtab == [t \in idx |-> VSqrt(alphabar_t[t])]
        oneover_sqrta == [t \in idx |-> VDivSqrt(Num(ROne), VSqrt(alpha_t[t]))]
        sqrtmab == [t \in idx |-> VSqrt(VSub(Num(ROne), alphabar_t[t]))]
        mab_over_sqrtmab == [t \in idx |->
                     VDivSqrt(VSub(Num(ROne), alpha_t[t]), sqrtmab[t])]
    IN  [alpha_t |-> alpha_t,
         oneover_sqrta |-> oneover_sqrta,
         sqrt_beta_t |-> sqrt_beta_t,
         alphabar_t |-> alphabar_t,
         sqrtab |-> sqrtab,
         sqrtmab |-> sqrtmab,
         mab_over_sqrtmab |-> mab_over_sqrtmab]

\* outcome of self.ddpm_schedules(beta1, beta2, T): the exception raised, if any
ddpm_schedules_error(beta1, beta2, T) ==
    IF ~BetasOK(beta1, beta2) THEN "AssertionError"
    ELSE IF T + 1 < 0 THEN "RuntimeError: arange"
    ELSE "none"


\* ------------------------------------------------------------ tensor shapes
Min(a, b) == IF a < b THEN a ELSE b

\* two batch dimensions broadcast when they are equal or one of them is 1
Broadcastable(a, b) == a = b \/ a = 1 \/ b = 1
Broadcast(a, b) == IF a = 1 THEN b ELSE a

\* what self.model(x, t) can do: raise, or return a tensor of some batch dimension
DenoiserOutcomes == {0} \cup (1 .. MaxOutDim)
Raises(out) == out = 0

\* ------------------------------------------------------------ inputs tried
BetaValues == {Rat(0, 1), Rat(1, 10), Rat(1, 2), Rat(1, 1)}
MinT == 0 - 2

\* ------------------------------------------------------------------- state
VARIABLES
    pc,        \* control position of the single thread
    betas,     \* <<beta1, beta2>> passed to DDPM.__init__
    n_T,       \* step count
    epochN,    \* self.epoch
    nBatches,  \* len(self.train_dataloader)
    sched,     \* the seven registered buffers
    epoch,     \* loop variable of train's outer loop
    batch,     \* index of the current batch in the epoch
    params,    \* version of the denoiser parameters (optimizer steps applied)
    pending,   \* counters the sampling loop has still to visit
    x_dim,     \* batch dimension of x_i
    calls,     \* denoiser invocations of the current sampling pass
    oplog,     \* training events: denoiser call and optimizer calls, per batch
    reads,     \* schedule indices read so far
    ckpts,     \* sampling checkpoints started: epoch and params at the start
    exports,   \* epochs whose image grid was saved
    mismatch,  \* some denoiser output had another shape than its image input
    bcastUsed, \* a loss or an update was computed by broadcasting such an output
    err        \* the exception that ended the run, "none" if none

vars == <<pc, betas, n_T, epochN, nBatches, sched, epoch, batch, params, pending,
          x_dim, calls, oplog, reads, ckpts, exports, mismatch, bcastUsed, err>>

cfg == <<betas, n_T, epochN, nBatches>>

NoSchedule == Schedules(RZero, RZero, 0 - 1)

Init ==
    /\ pc = "new"
    /\ betas \in BetaValues \X BetaValues
    /\ n_T \in MinT .. MaxT
    /\ epochN \in 1 .. MaxEpochs
    /\ nBatches \in 1 .. MaxBatches
    /\ sched = NoSchedule
    /\ epoch = 0
    /\ batch = 0
    /\ params = 0
    /\ pending = <<>>
    /\ x_dim = 0
    /\ calls = <<>>
    /\ oplog = <<>>
    /\ reads = {}
    /\ ckpts = <<>>
    /\ exports = <<>>
    /\ mismatch = FALSE
    /\ bcastUsed = FALSE
    /\ err = "none"

\* ---------------------------------------------------------- control helpers
\* a handler that swallows the exception and carries on
UnwindCaught(where) == IF where = "sample" THEN "sample" ELSE "zero_grad"

\* Neither train nor visualize_results nor sample nor forward has a handler:
\* an exception raised at any position leaves train.
Unwind(where) == "failed"

\* the gradients are not cleared
AfterLossNoZeroGrad == "backward"

\* positions after the loss and after each optimizer call of one batch
AfterLoss == "zero_grad"
AfterZeroGrad == "backward"
AfterBackward == "step"

\* the checkpoint indented into the batch loop
EpochOverEveryBatch(done, n) == TRUE

\* the inner loop of train is exhausted after the batch with index done - 1
EpochOver(done, n) == done >= n

\* an optimizer over the schedule tensors too
OptimizerTargetsAll == {"model", "schedule"}

\* what self.optimizer was built over
OptimizerTargets == {"model"}

\* t ~ Uniform(0, n_T)
RandIntFromZero(low, high) == (low - 1) .. (high - 1)

\* torch.randint(low, high, ...): integers in [low, high)
RandInt(low, high) == low .. (high - 1)

\* range(start, stop, -1) as the sequence start, start-1, ..., stop+1
RangeDown(start, stop) ==
    [k \in 1 .. (IF start > stop THEN start - stop ELSE 0) |-> start - k + 1]

\* range(T, -1, -1): one more iteration, at counter 0
SampleCountersToZero(T) == RangeDown(T, 0 - 1)

\* the counters of the sampling loop
SampleCounters(T) == RangeDown(T, 0)

\* t_is of iteration i
TNorm(i, T) == Rat(i, T)

\* noise at every iteration
InjectsNoiseAlways(i) == i > 0

\* z is fresh noise (TRUE) or the scalar 0 (FALSE)
InjectsNoise(i) == i > 1

\* a buffer after an in-place parameter update
Stepped(buf) == [t \in DOMAIN buf |-> NaN]

Raise(e, where) ==
    /\ err' = e
    /\ pc' = Unwind(where)

\* ------------------------------------------------------------------ actions
\* DDPM.__init__ as called by ImageGenerator.__init__
Construct ==
    /\ pc = "new"
    /\ LET e == ddpm_schedules_error(betas[1], betas[2], n_T) IN
         IF e # "none"
         THEN /\ Raise(e, "new")
              /\ sched' = sched
         ELSE /\ sched' = Schedules(betas[1], betas[2], n_T)
              /\ pc' = "constructed"
              /\ err' = err
    /\ UNCHANGED <<cfg, epoch, batch, params, pending, x_dim, calls, oplog, reads,
                   ckpts, exports, mismatch, bcastUsed>>

\* ImageGenerator.train up to the first batch of the first epoch
Train ==
    /\ pc = "constructed"
    /\ epoch' = 0
    /\ batch' = 0
    /\ pc' = "loss"
    /\ UNCHANGED <<cfg, sched, params, pending, x_dim, calls, oplog, reads, ckpts,
                   exports, mismatch, bcastUsed, err>>

\* loss = self.sampler(images): DDPM.forward on one batch
Forward ==
    /\ pc = "loss"
    /\ IF RandInt(1, n_T + 1) = {}
       THEN /\ Raise("RuntimeError: randint", "loss")
            /\ UNCHANGED <<reads, oplog, mismatch, bcastUsed>>
       ELSE \E _ts \in [1 .. BatchSize -> RandInt(1, n_T + 1)], out \in DenoiserOutcomes :
              /\ reads' = reads \cup {_ts[b] : b \in 1 .. BatchSize}
              /\ oplog' = Append(oplog, <<epoch, batch, "denoiser">>)
              /\ IF Raises(out)
                 THEN /\ Raise("DenoiserError", "loss")
                      /\ UNCHANGED <<mismatch, bcastUsed>>
                 ELSE /\ mismatch' = (mismatch \/ out # BatchSize)
                      /\ IF Broadcastable(BatchSize, out)
                         THEN /\ bcastUsed' = (bcastUsed \/ out # BatchSize)
                              /\ pc' = AfterLoss
                              /\ err' = err
                         ELSE /\ Raise("RuntimeError: broadcast", "loss")
                              /\ bcastUsed' = bcastUsed
    /\ UNCHANGED <<cfg, sched, epoch, batch, params, pending, x_dim, calls, ckpts,
                   exports>>

\* self.optimizer.zero_grad()
ZeroGrad ==
    /\ pc = "zero_grad"
    /\ oplog' = Append(oplog, <<epoch, batch, "zero_grad">>)
    /\ pc' = AfterZeroGrad
    /\ UNCHANGED <<cfg, sched, epoch, batch, params, pending, x_dim, calls, reads,
                   ckpts, exports, mismatch, bcastUsed, err>>

\* loss.backward()
Backward ==
    /\ pc = "backward"
    /\ oplog' = Append(oplog, <<epoch, batch, "backward">>)
    /\ pc' = AfterBackward
    /\ UNCHANGED <<cfg, sched, epoch, batch, params, pending, x_dim, calls, reads,
                   ckpts, exports, mismatch, bcastUsed, err>>

\* self.optimizer.step(), then the inner loop advances or ends
Step ==
    /\ pc = "step"
    /\ oplog' = Append(oplog, <<epoch, batch, "step">>)
    /\ params' = IF "model" \in OptimizerTargets THEN params + 1 ELSE params
    /\ sched' = IF "schedule" \in OptimizerTargets
                THEN [name \in DOMAIN sched |-> Stepped(sched[name])]
                ELSE sched
    /\ IF EpochOver(batch + 1, nBatches)
       THEN /\ pc' = "epoch_end"
            /\ batch' = batch
       ELSE /\ pc' = "loss"
            /\ batch' = batch + 1
    /\ UNCHANGED <<cfg, epoch, pending, x_dim, calls, reads, ckpts, exports,
                   mismatch, bcastUsed, err>>

\* end of the epoch: statistics, then visualize_results up to the sampling loop
Visualize ==
    /\ pc = "epoch_end"
    /\ ckpts' = Append(ckpts, [epoch |-> epoch, params |-> params])
    /\ x_dim' = SampleNum
    /\ pending' = SampleCounters(n_T)
    /\ calls' = <<>>
    /\ pc' = "sample"
    /\ UNCHANGED <<cfg, sched, epoch, batch, params, oplog, reads, exports, mismatch,
                   bcastUsed, err>>

\* one iteration of the loop of DDPM.sample
SampleIter ==
    /\ pc = "sample"
    /\ pending # <<>>
    /\ LET i == Head(pending)
           z == InjectsNoise(i)
       IN  \E out \in DenoiserOutcomes :
             /\ calls' = Append(calls, [i |-> i, t_norm |-> TNorm(i, n_T), z |-> z,
                                        params |-> params, x |-> x_dim])
             /\ IF Raises(out)
                THEN /\ Raise("DenoiserError", "sample")
                     /\ UNCHANGED <<pending, x_dim, reads, mismatch, bcastUsed>>
                ELSE LET x1 == Min(x_dim, SampleNum)
                         ok == /\ Broadcastable(x1, out)
                               /\ z => Broadcastable(Broadcast(x1, out), SampleNum)
                     IN  /\ mismatch' = (mismatch \/ out # x_dim)
                         /\ reads' = reads \cup {i}
                         /\ IF ok
                            THEN /\ x_dim' = IF z THEN Broadcast(Broadcast(x1, out), SampleNum)
                                             ELSE Broadcast(x1, out)
                                 /\ bcastUsed' = (bcastUsed \/ out # x_dim)
                                 /\ pending' = Tail(pending)
                                 /\ UNCHANGED <<pc, err>>
                            ELSE /\ Raise("RuntimeError: broadcast", "sample")
                                 /\ UNCHANGED <<pending, x_dim, bcastUsed>>
    /\ UNCHANGED <<cfg, sched, epoch, batch, params, oplog, ckpts, exports>>

\* sample returns; save_image; the outer loop of train advances or train returns
Save ==
    /\ pc = "sample"
    /\ pending = <<>>
    /\ exports' = Append(exports, epoch)
    /\ IF epoch + 1 < epochN
       THEN /\ epoch' = epoch + 1
            /\ batch' = 0
            /\ pc' = "loss"
       ELSE /\ pc' = "done"
            /\ UNCHANGED <<epoch, batch>>
    /\ UNCHANGED <<cfg, sched, params, pending, x_dim, calls, oplog, reads, ckpts,
                   mismatch, bcastUsed, err>>

Next ==
    \/ Construct
    \/ Train
    \/ Forward
    \/ ZeroGrad
    \/ Backward
    \/ Step
    \/ Visualize
    \/ SampleIter
    \/ Save

Spec == Init /\ [][Next]_vars


\* ------------------------------------------------------------- properties
ValidInputs ==
    /\ RLt(RZero, betas[1])
    /\ RLt(betas[1], betas[2])
    /\ RLt(betas[2], ROne)
    /\ n_T >= 1

\* ddpm_schedules returned a schedule
Built == pc # "new" /\ err \notin {"AssertionError", "RuntimeError: arange"}

\* the sampling pass of the latest checkpoint ran its loop to the end
PassComplete == ckpts # <<>> /\ (pc = "done" \/ (pc = "sample" /\ pending = <<>>))

\* the latest sampling pass was left by an exception
PassFailed == pc = "failed" /\ Len(ckpts) > Len(exports)

\* C1: a pass of DDPM.sample invokes the denoiser for i = n_T, n_T-1, ..., 1 in
\* that order, with t_norm = i / n_T, never more than n_T times; a pass that
\* ran to its end made exactly n_T invocations; and a pass ends before that
\* only by an exception, raised by the denoiser or by the update on an output
\* whose shape cannot be broadcast against x_i.
C1_SampleInvokesDenoiserStepCountTimes ==
    /\ Len(calls) <= n_T \/ calls = <<>>
    /\ \A k \in 1 .. Len(calls) :
         /\ calls[k].i = n_T - k + 1
         /\ calls[k].i >= 1
         /\ calls[k].t_norm[1] * n_T = calls[k].i * calls[k].t_norm[2]
    /\ (pc = "sample") => (Len(calls) + Len(pending) = n_T)
    /\ PassComplete => (Len(calls) = n_T)
    /\ PassFailed => \/ err = "DenoiserError"
                     \/ (err = "RuntimeError: broadcast" /\ mismatch)

C1_Witness == pc = "done" /\ n_T >= 2 /\ Len(calls) = n_T /\ calls[Len(calls)].i = 1

\* C2: iteration i of DDPM.sample injects noise iff i > 1; with n_T = 1 the
\* only iteration of a completed pass injected none.
C2_NoiseIffCounterAboveOne ==
    /\ \A k \in 1 .. Len(calls) : calls[k].z <=> (calls[k].i > 1)
    /\ (n_T = 1 /\ PassComplete) => (Len(calls) = 1 /\ ~calls[1].z)

C2_Witness == n_T = 1 /\ pc = "done" /\ Len(calls) = 1 /\ ~calls[1].z

\* C3: the schedule builder returns no schedule unless
\* 0 < beta_min < beta_max < 1 and step_count >= 1.
C3_InvalidInputsRejected == Built => ValidInputs

\* C4 as claimed: for valid inputs alpha_bar[0] = 1, sqrt_alpha_bar[0] = 1 and
\* sqrt_one_minus_alpha_bar[0] = 0.
C4_AlphaBarZeroIsOne ==
    (Built /\ ValidInputs) =>
        /\ sched.alphabar_t[0] = Num(ROne)
        /\ sched.sqrtab[0] = VSqrt(Num(ROne))
        /\ sched.sqrtmab[0] = VSqrt(Num(RZero))

\* C4 amended: for valid inputs alpha_bar[0] = alpha[0] = 1 - beta_min, which is
\* below 1, sqrt_alpha_bar[0] = sqrt(1 - beta_min), sqrt_one_minus_alpha_bar[0] =
\* sqrt(beta_min), and alpha_bar[t] = alpha_bar[t-1] * alpha[t] for t in 1..n_T.
C4_AlphaBarIsCumulativeProduct ==
    (Built /\ ValidInputs) =>
        /\ sched.alphabar_t[0] = sched.alpha_t[0]
        /\ sched.alphabar_t[0] = Num(RSub(ROne, betas[1]))
        /\ RLt(sched.alphabar_t[0].a, ROne)
        /\ sched.sqrtab[0] = [k |-> "sqrt", a |-> RSub(ROne, betas[1]), b |-> RZero]
        /\ sched.sqrtmab[0] = [k |-> "sqrt", a |-> betas[1], b |-> RZero]
        /\ \A t \in 1 .. n_T :
             /\ sched.alphabar_t[t].k = "rat"
             /\ sched.alphabar_t[t].a =
                  RMul(sched.alphabar_t[t - 1].a, sched.alpha_t[t].a)

C4_Witness == pc = "constructed" /\ ValidInputs /\ n_T >= 2

\* C5: checkpoint k starts in epoch k-1 after exactly k * nBatches optimizer
\* steps, no training event of a later epoch precedes it, a run that returns
\* made one checkpoint per epoch, and the parameters are the same at every
\* denoiser invocation of a pass.
C5_OneCheckpointPerEpochOnFixedParams ==
    /\ \A k \in 1 .. Len(ckpts) :
         /\ ckpts[k].epoch = k - 1
         /\ ckpts[k].params = k * nBatches
    /\ \A k \in 1 .. Len(oplog) : oplog[k][1] <= Len(ckpts)
    /\ \A k \in 1 .. Len(exports) : exports[k] = k - 1
    /\ Len(exports) <= Len(ckpts) /\ Len(ckpts) <= Len(exports) + 1
    /\ (pc = "done") => (Len(ckpts) = epochN /\ Len(exports) = epochN)
    /\ (pc = "sample") => (params = ckpts[Len(ckpts)].params)
    /\ \A k \in 1 .. Len(calls) : calls[k].params = ckpts[Len(ckpts)].params

C5_Witness ==
    /\ pc = "done" /\ epochN >= 2 /\ nBatches >= 2
    /\ Len(ckpts) = epochN /\ Len(calls) = n_T /\ n_T >= 2

BatchEvents == <<"denoiser", "zero_grad", "backward", "step">>

\* C6: the training events are, batch after batch in delivery order, one denoiser
\* call, zero_grad, backward, step; a new batch starts only when the previous
\* one has had all four, and a run that returns served every batch.
C6_OptimizerProtocolPerBatch ==
    /\ \A k \in 1 .. Len(oplog) :
         /\ oplog[k][3] = BatchEvents[((k - 1) % 4) + 1]
         /\ oplog[k][1] = ((k - 1) \div 4) \div nBatches
         /\ oplog[k][2] = ((k - 1) \div 4) % nBatches
    /\ (pc \in {"loss", "epoch_end", "sample", "done"}) => (Len(oplog) % 4 = 0)
    /\ (pc = "done") => (Len(oplog) = 4 * epochN * nBatches)
    /\ params * 4 <= Len(oplog)

C6_Witness == pc = "done" /\ epochN >= 2 /\ nBatches >= 2 /\ Len(oplog) >= 16

\* C7: once an exception is raised nothing further happens: no denoiser call,
\* no optimizer call, no epoch, no checkpoint; and the checkpoint of the epoch
\* in which it was raised is not exported.
C7_FailurePropagates ==
    /\ [](err # "none" => (pc = "failed" /\ \A k \in 1 .. Len(exports) : exports[k] < epoch))
    /\ [][err # "none" => UNCHANGED vars]_vars

C7_Witness ==
    /\ err = "DenoiserError" /\ pc = "failed"
    /\ Len(ckpts) = epoch + 1 /\ calls # <<>> /\ Len(calls) < n_T

\* C8: a denoiser output whose shape differs from its image input ends the run
\* at once; no loss and no update is computed by broadcasting it.
C8_ShapeMismatchIsFatal == mismatch => (pc = "failed" /\ ~bcastUsed)

\* C9: after construction no step changes any of the seven schedule sequences.
C9_ScheduleNeverMutated == [][pc # "new" => sched' = sched]_vars

C9_Witness ==
    /\ pc = "done" /\ params >= 2 /\ Len(exports) >= 2
    /\ sched = Schedules(betas[1], betas[2], n_T) /\ n_T >= 1

====
